---- MODULE Spec2Model ----
(***************************************************************************)
(* The persistent Raft log of redisraft (log.c): the framing codec, the    *)
(* log file, the index file, the ring-buffer entry cache and the log       *)
(* facade (RaftLogImpl) that the consensus library drives.                 *)
(*                                                                         *)
(* Representation.  A file is the sequence of framed records it holds; a   *)
(* record is its declared element count n and the elements actually        *)
(* present (a record whose write stopped half-way has fewer than n); an    *)
(* element is its payload, a sequence of one-character strings.  Byte      *)
(* offsets are computed from the framing ("*<N>\r\n", "$<L>\r\n...\r\n"),  *)
(* so the index file holds the same numbers the code stores.  Payload      *)
(* bytes of the model never contain '*', hence a '*' byte occurs exactly   *)
(* at the start of a record and a read at any other offset fails in        *)
(* readEncodedLength.                                                      *)
(***************************************************************************)
EXTENDS Integers, Sequences, FiniteSets, TLC

(***************************************************************************)
(* Bounds of the model.                                                    *)
(***************************************************************************)
MaxIndex    == 2   \* appends stop when the log index reaches MaxIndex
MaxCount    == 4   \* appends stop when num_entries reaches MaxCount
MaxRecords  == 4   \* appends stop when the file holds MaxRecords records
MaxSnapIdx  == 1   \* create/reset are called with index in 0..MaxSnapIdx
MaxTerm     == 1   \* terms passed to create/reset/set_term are in 0..MaxTerm
MaxNodeId   == 1   \* votes are -1 or a node id in 1..MaxNodeId
MaxEntryId  == 2   \* appended entries carry an id in 1..MaxEntryId
MaxFailures == 1   \* at most this many operations meet an I/O error
MaxBatch    == 3   \* get_batch is asked for 0..MaxBatch entries

(***************************************************************************)
(* Program constants.                                                      *)
(***************************************************************************)
ENTRY_CACHE_INIT_SIZE == 1    \* 512 in the source; scaled so the ring grows
RAFTLOG_VERSION       == 1
RAFT_DBID_LEN         == 32

NULL == [null |-> TRUE]

(***************************************************************************)
(* Framing codec.                                                          *)
(***************************************************************************)
DigitChars == <<"0", "1", "2", "3", "4", "5", "6", "7", "8", "9">>

RECURSIVE FormatUnsigned(_)
\* printf("%lu", value)
FormatUnsigned(value) ==
    IF value < 10 THEN <<DigitChars[value + 1]>>
    ELSE Append(FormatUnsigned(value \div 10), DigitChars[(value % 10) + 1])

RECURSIVE ZeroPad(_, _)
\* left-pads with '0' up to width pad (the "%0*" of printf)
ZeroPad(s, pad) == IF Len(s) >= pad THEN s ELSE ZeroPad(<<"0">> \o s, pad)

\* the payload writeUnsignedInteger hands to fprintf
writeUnsignedInteger(value, pad) ==
    IF pad # 0 THEN ZeroPad(FormatUnsigned(value), pad) ELSE FormatUnsigned(value)

\* writeInteger with the pad argument ignored ("%ld" in place of "%0*ld")
writeIntegerUnpadded(value, pad) ==
    IF value < 0 THEN <<"-">> \o FormatUnsigned(-value) ELSE FormatUnsigned(value)

\* the payload writeInteger hands to fprintf: the sign counts toward the width
writeInteger(value, pad) ==
    IF value < 0
    THEN <<"-">> \o (IF pad # 0 THEN ZeroPad(FormatUnsigned(-value), pad - 1)
                                ELSE FormatUnsigned(-value))
    ELSE IF pad # 0 THEN ZeroPad(FormatUnsigned(value), pad) ELSE FormatUnsigned(value)

\* writeBuffer stores the bytes as they are
writeBuffer(buf) == buf

DigitValue(c) == CHOOSE d \in 0..9 : DigitChars[d + 1] = c
IsDigit(c) == \E d \in 0..9 : DigitChars[d + 1] = c

RECURSIVE ParseDigits(_, _, _)
\* the digit loop of strtoul/strtol: value so far, position of the next char
ParseDigits(s, pos, acc) ==
    IF pos <= Len(s) /\ IsDigit(s[pos])
    THEN ParseDigits(s, pos + 1, acc * 10 + DigitValue(s[pos]))
    ELSE [val |-> acc, eptr |-> pos]

\* strtoul(s, &eptr, 10): the value and whether *eptr is the terminating NUL
\* (an empty string converts to 0 with eptr at the NUL)
strtoul(s) ==
    LET r == ParseDigits(s, 1, 0)
    IN  [val |-> r.val, atend |-> r.eptr = Len(s) + 1]

\* strtol(s, &eptr, 10): as strtoul, with an optional leading sign
strtol(s) ==
    IF Len(s) > 0 /\ s[1] = "-"
    THEN LET r == ParseDigits(s, 2, 0)
         IN  [val |-> 0 - r.val, atend |-> r.eptr = Len(s) + 1 /\ r.eptr > 2]
    ELSE strtoul(s)

\* bytes of "*<N>\r\n" (writeBegin's return value)
writeBeginLen(n) == 1 + Len(FormatUnsigned(n)) + 2

\* bytes of "$<L>\r\n<payload>\r\n" (writeBuffer's return value)
ElementLen(el) == 1 + Len(FormatUnsigned(Len(el))) + 2 + Len(el) + 2

RECURSIVE ElementsLen(_)
ElementsLen(els) ==
    IF els = <<>> THEN 0 ELSE ElementLen(Head(els)) + ElementsLen(Tail(els))

\* bytes a record occupies in the file (a negative count: -n raw bytes)
RecordLen(r) == IF r.n < 0 THEN 0 - r.n ELSE writeBeginLen(r.n) + ElementsLen(r.els)

RECURSIVE FileLen(_)
FileLen(f) == IF f = <<>> THEN 0 ELSE RecordLen(Head(f)) + FileLen(Tail(f))

\* ftell at the start of the k-th record (k = Len(f) + 1: end of file)
RecordOffset(f, k) == FileLen(SubSeq(f, 1, k - 1))

\* the record that starts at byte offset off, or 0 when none does
RecordAt(f, off) ==
    IF \E k \in 1..Len(f) : RecordOffset(f, k) = off
    THEN CHOOSE k \in 1..Len(f) : RecordOffset(f, k) = off
    ELSE 0

\* readRawLogEntry with the stream positioned at record k: fails on end of
\* file and on a record whose elements are not all there (the next
\* readEncodedLength meets '*' or end of file instead of '$')
readRawLogEntry(f, k) ==
    IF k < 1 \/ k > Len(f) THEN [ok |-> FALSE, re |-> NULL]
    ELSE IF Len(f[k].els) # f[k].n THEN [ok |-> FALSE, re |-> NULL]
    ELSE [ok |-> TRUE, re |-> f[k]]

(***************************************************************************)
(* Entries cache: a ring of entry pointers, ptrs[0..size-1].               *)
(***************************************************************************)
EntryCacheNew(initial_size) ==
    [size      |-> initial_size,
     ptrs      |-> [i \in 0..(initial_size - 1) |-> NULL],
     start     |-> 0,
     len       |-> 0,
     start_idx |-> 0]

\* a teardown that releases the first len slots of the ring, not the len
\* slots from start on
EntryCacheFreeFromZero(cache) ==
    [i \in 1..cache.len |-> cache.ptrs[(i - 1) % cache.size]]

\* EntryCacheFree: the pointers handed to raft_entry_release, in order (the
\* cache itself is freed)
EntryCacheFree(cache) ==
    [i \in 1..cache.len |-> cache.ptrs[(cache.start + (i - 1)) % cache.size]]

\* an enlargement that reallocates without moving the wrapped head
EntryCacheGrowInPlace(cache) ==
    [cache EXCEPT
       !.ptrs = [i \in 0..(cache.size * 2 - 1) |->
                   IF i < cache.size THEN cache.ptrs[i] ELSE NULL],
       !.size = cache.size * 2]

\* the "Enlarge cache if necessary" block of EntryCacheAppend: realloc to
\* twice the size, move the wrapped head [0, start) to [size, size + start)
EntryCacheGrow(cache) ==
    LET new_size == cache.size * 2
    IN  [cache EXCEPT
           !.ptrs = [i \in 0..(new_size - 1) |->
                       IF i < cache.start THEN NULL
                       ELSE IF i < cache.size THEN cache.ptrs[i]
                       ELSE IF i < cache.size + cache.start
                            THEN cache.ptrs[i - cache.size]
                       ELSE NULL],
           !.size = new_size]

\* EntryCacheAppend: the cache afterwards, whether the assert held, and the
\* pointers handed to raft_entry_hold
EntryCacheAppend(cache, ety, idx) ==
    LET c1 == IF cache.start_idx = 0 THEN [cache EXCEPT !.start_idx = idx] ELSE cache
        c2 == IF c1.len = c1.size THEN EntryCacheGrow(c1) ELSE c1
    IN  [asserted |-> c1.start_idx + c1.len = idx,
         cache    |-> [c2 EXCEPT !.ptrs[(c2.start + c2.len) % c2.size] = ety,
                                 !.len = c2.len + 1],
         held     |-> <<ety>>]

\* the pointers EntryCacheGet hands to raft_entry_hold (none on a miss)
EntryCacheGetHeld(cache, idx) ==
    IF idx < cache.start_idx THEN <<>>
    ELSE IF idx - cache.start_idx >= cache.len THEN <<>>
    ELSE <<cache.ptrs[(cache.start + (idx - cache.start_idx)) % cache.size]>>

EntryCacheGet(cache, idx) ==
    IF idx < cache.start_idx THEN NULL
    ELSE IF idx - cache.start_idx >= cache.len THEN NULL
    ELSE cache.ptrs[(cache.start + (idx - cache.start_idx)) % cache.size]

RECURSIVE EntryCacheDeleteHeadLoop(_, _, _, _)
\* the while loop of EntryCacheDeleteHead; released lists the pointers handed
\* to raft_entry_release
EntryCacheDeleteHeadLoop(cache, first_idx, deleted, released) ==
    IF first_idx > cache.start_idx /\ cache.len > 0
    THEN EntryCacheDeleteHeadLoop(
             [cache EXCEPT !.start_idx = cache.start_idx + 1,
                           !.ptrs[cache.start] = NULL,
                           !.start = IF cache.start + 1 >= cache.size
                                     THEN 0 ELSE cache.start + 1,
                           !.len = cache.len - 1],
             first_idx, deleted + 1, Append(released, cache.ptrs[cache.start]))
    ELSE [cache |-> cache, deleted |-> deleted, released |-> released]

\* EntryCacheDeleteHead: the cache afterwards and the returned count (-1: refused)
EntryCacheDeleteHead(cache, first_idx) ==
    IF first_idx < cache.start_idx
    THEN [cache |-> cache, deleted |-> -1, released |-> <<>>]
    ELSE LET r == EntryCacheDeleteHeadLoop(cache, first_idx, 0, <<>>)
         IN  [cache    |-> IF r.cache.len = 0
                           THEN [r.cache EXCEPT !.start_idx = 0] ELSE r.cache,
              deleted  |-> r.deleted,
              released |-> r.released]

RECURSIVE EntryCacheDeleteTailLoop(_, _, _, _)
\* the for loop of EntryCacheDeleteTail (len is only reduced after the loop);
\* released lists the pointers handed to raft_entry_release
EntryCacheDeleteTailLoop(cache, i, deleted, released) ==
    IF i < cache.start_idx + cache.len
    THEN EntryCacheDeleteTailLoop(
             [cache EXCEPT !.ptrs[(cache.start + (i - cache.start_idx)) % cache.size] = NULL],
             i + 1, deleted + 1,
             Append(released, cache.ptrs[(cache.start + (i - cache.start_idx)) % cache.size]))
    ELSE [cache |-> cache, deleted |-> deleted, released |-> released]

\* EntryCacheDeleteTail: the cache afterwards and the returned count (-1: refused)
EntryCacheDeleteTail(cache, index) ==
    IF index >= cache.start_idx + cache.len
    THEN [cache |-> cache, deleted |-> -1, released |-> <<>>]
    ELSE IF index < cache.start_idx
    THEN [cache |-> cache, deleted |-> -1, released |-> <<>>]
    ELSE LET r  == EntryCacheDeleteTailLoop(cache, index, 0, <<>>)
             c1 == [r.cache EXCEPT !.len = cache.len - r.deleted]
         IN  [cache    |-> IF c1.len = 0 THEN [c1 EXCEPT !.start_idx = 0] ELSE c1,
              deleted  |-> r.deleted,
              released |-> r.released]

(***************************************************************************)
(* Records of the log file.                                                *)
(***************************************************************************)
TagRAFTLOG == <<"R", "A", "F", "T", "L", "O", "G">>
TagENTRY   == <<"E", "N", "T", "R", "Y">>

UpperChars == <<"A", "E", "F", "G", "L", "N", "O", "R", "T", "Y">>
LowerChars == <<"a", "e", "f", "g", "l", "n", "o", "r", "t", "y">>

\* tolower on the letters the tags are made of
ToLower(c) ==
    IF \E k \in 1..Len(UpperChars) : UpperChars[k] = c
    THEN LowerChars[CHOOSE k \in 1..Len(UpperChars) : UpperChars[k] = c]
    ELSE c

\* !strcasecmp(a, b)
strcasecmpEq(a, b) ==
    /\ Len(a) = Len(b)
    /\ \A k \in 1..Len(a) : ToLower(a[k]) = ToLower(b[k])

\* unparseable bytes (a zero-filled hole, or what is left of a record cut
\* inside): a record with a negative count, which holds -n raw bytes
RawBytes(len) == [n |-> 0 - len, els |-> <<>>]

\* the record the fprintf/fwrite calls of RaftLogWriteEntry produce
EntryRecord(entry) ==
    [n   |-> 5,
     els |-> <<writeBuffer(TagENTRY),
               writeUnsignedInteger(entry.term, 0),
               writeUnsignedInteger(entry.id, 0),
               writeUnsignedInteger(entry.type, 0),
               writeBuffer(entry.data)>>]

\* the record writeLogHeader produces
writeLogHeader(log) ==
    [n   |-> 7,
     els |-> <<writeBuffer(TagRAFTLOG),
               writeUnsignedInteger(RAFTLOG_VERSION, 4),
               writeBuffer(log.dbid),
               writeUnsignedInteger(log.snapshot_last_term, 20),
               writeUnsignedInteger(log.snapshot_last_idx, 20),
               writeUnsignedInteger(log.term, 20),
               writeInteger(log.vote, 11)>>]

\* parseRaftLogEntry: the entry, or NULL
parseRaftLogEntry(re) ==
    IF re.n # 5 THEN NULL
    ELSE LET t  == strtoul(re.els[2])
             i  == strtoul(re.els[3])
             ty == strtoul(re.els[4])
         IN  IF ~t.atend \/ ~i.atend \/ ~ty.atend THEN NULL
             ELSE [term |-> t.val, id |-> i.val, type |-> ty.val, data |-> re.els[5]]

\* handleHeader: whether the header was accepted, and the log it fills in
handleHeader(log, re) ==
    IF re.n # 7 \/ re.els[1] # TagRAFTLOG THEN [ok |-> FALSE, log |-> log]
    ELSE LET ver == strtoul(re.els[2])
             st  == strtoul(re.els[4])
             si  == strtoul(re.els[5])
             t   == strtoul(re.els[6])
             v   == strtol(re.els[7])
             l1  == [log EXCEPT !.dbid = re.els[3],
                                !.snapshot_last_term = st.val,
                                !.index = si.val,
                                !.snapshot_last_idx = si.val,
                                !.term = t.val,
                                !.vote = v.val]
         IN  IF ~ver.atend \/ ver.val # RAFTLOG_VERSION THEN [ok |-> FALSE, log |-> log]
             ELSE IF Len(re.els[3]) > RAFT_DBID_LEN THEN [ok |-> FALSE, log |-> log]
             ELSE IF ~st.atend \/ ~si.atend \/ ~t.atend \/ ~v.atend
                  THEN [ok |-> FALSE, log |-> l1]
             ELSE [ok |-> TRUE, log |-> l1]

(***************************************************************************)
(* Index file: slot k (element k + 1 of the sequence) is the byte offset   *)
(* of entry snapshot_last_idx + k.                                         *)
(***************************************************************************)
\* fseek to slot relidx and fwrite: a write past the end leaves a zero hole
WriteSlot(idx, relidx, offset) ==
    [k \in 1..(IF relidx + 1 > Len(idx) THEN relidx + 1 ELSE Len(idx)) |->
        IF k = relidx + 1 THEN offset
        ELSE IF k <= Len(idx) THEN idx[k] ELSE 0]

\* updateIndex: the index file afterwards
updateIndex(log, idx, index, offset) ==
    WriteSlot(idx, index - log.snapshot_last_idx, offset)

\* unsigned comparison a > b, where a negative b stands for the value it
\* wraps to as an unsigned long (2^64 + b)
UnsignedGT(a, b) == IF b < 0 THEN FALSE ELSE a > b

\* seekEntry: the offset of entry idx, 0 when it is refused
seekEntry(log, idx, i) ==
    IF i <= log.snapshot_last_idx THEN 0
    ELSE IF UnsignedGT(i, log.snapshot_last_idx + log.num_entries) THEN 0
    ELSE LET relidx == i - log.snapshot_last_idx
         IN  IF relidx + 1 > Len(idx) THEN 0 ELSE idx[relidx + 1]

\* ftruncate(fd, offset): whole records before the offset are kept, a record
\* cut inside leaves raw bytes, a length past the end adds a zero hole
ftruncate(f, offset) ==
    LET whole == {k \in 0..Len(f) : FileLen(SubSeq(f, 1, k)) <= offset}
        keep  == CHOOSE k \in whole : \A j \in whole : j <= k
        rest  == offset - FileLen(SubSeq(f, 1, keep))
    IN  IF rest = 0 THEN SubSeq(f, 1, keep)
        ELSE Append(SubSeq(f, 1, keep), RawBytes(rest))

(***************************************************************************)
(* Raft log operations (RaftLog* functions).  Each takes the in-memory log *)
(* struct and the two files and yields what the call leaves behind.        *)
(***************************************************************************)
RR_OK    == "RR_OK"
RR_ERROR == "RR_ERROR"

\* the struct prepareLog callocs
prepareLog ==
    [dbid |-> <<>>, snapshot_last_term |-> 0, snapshot_last_idx |-> 0,
     term |-> 0, vote |-> 0, index |-> 0, num_entries |-> 0]

RaftLogCreate(dbid, term, index) ==
    LET log == [prepareLog EXCEPT !.index = index,
                                  !.snapshot_last_idx = index,
                                  !.snapshot_last_term = term,
                                  !.term = 1,
                                  !.vote = -1,
                                  !.dbid = SubSeq(dbid, 1, RAFT_DBID_LEN)]
    IN  [log |-> log, file |-> <<writeLogHeader(log)>>, idx |-> <<>>]

\* updateLogHeader: the header is written at offset 0 through a second "r+"
\* handle; the bytes it covers are replaced, the rest of the file stays
updateLogHeader(log, f) ==
    LET hdr == writeLogHeader(log)
    IN  IF f = <<>> THEN <<hdr>>
        ELSE IF RecordLen(hdr) = RecordLen(f[1]) THEN [f EXCEPT ![1] = hdr]
        ELSE IF RecordLen(hdr) < RecordLen(f[1])
             THEN <<hdr, RawBytes(RecordLen(f[1]) - RecordLen(hdr))>> \o Tail(f)
        ELSE IF FileLen(f) > RecordLen(hdr)
             THEN <<hdr, RawBytes(FileLen(f) - RecordLen(hdr))>>
        ELSE <<hdr>>

RaftLogReset(log, index, term) ==
    LET l1 == [log EXCEPT !.index = index,
                          !.snapshot_last_idx = index,
                          !.snapshot_last_term = term]
        l2 == IF l1.term > term THEN [l1 EXCEPT !.term = term, !.vote = -1] ELSE l1
    IN  [ret |-> RR_OK, log |-> l2, file |-> <<writeLogHeader(l2)>>, idx |-> <<>>]

\* The contents of the log file at the points of RaftLogReset at which the
\* process can die: on entry, after ftruncate(fileno(log->file), 0), and
\* after writeLogHeader (the header reaches the file in the one write of
\* the fflush in writeEnd).
RaftLogResetPoints(log, f, index, term) ==
    <<f, ftruncate(f, 0), RaftLogReset(log, index, term).file>>

\* the same for RaftLogCreate: after the ftruncate, after writeLogHeader
RaftLogCreatePoints(dbid, term, index) ==
    <<ftruncate(<<>>, 0), RaftLogCreate(dbid, term, index).file>>

\* the same for updateLogHeader: on entry, after writeLogHeader and fclose
updateLogHeaderPoints(log, f) == <<f, updateLogHeader(log, f)>>

\* Points at which an append can fail: the first write of the record
\* (writeBegin), a later write of the record, updateIndex, writeEnd
FailNone  == "none"
FailBegin == "writeBegin"
FailWrite == "writeBuffer"
FailIndex == "updateIndex"
FailSync  == "writeEnd"
FailPoints == {FailNone, FailBegin, FailWrite, FailIndex, FailSync}

\* RaftLogWriteEntry.  A failing write of the record leaves the pieces
\* written before it in the stream (for FailWrite: the count, the tag and
\* the term); the stream is in append mode, so the record starts at the end
\* of the file.
RaftLogWriteEntry(log, f, idx, entry, fail) ==
    LET rec    == EntryRecord(entry)
        offset == FileLen(f)
    IN  IF fail = FailBegin THEN [ret |-> RR_ERROR, log |-> log, file |-> f, idx |-> idx]
        ELSE IF fail = FailWrite
             THEN [ret |-> RR_ERROR, log |-> log, idx |-> idx,
                   file |-> Append(f, [rec EXCEPT !.els = SubSeq(rec.els, 1, 2)])]
        ELSE LET l1 == [log EXCEPT !.index = log.index + 1]
             IN  IF fail = FailIndex
                 THEN [ret |-> RR_ERROR, log |-> l1, file |-> Append(f, rec), idx |-> idx]
                 ELSE [ret |-> RR_OK, log |-> l1, file |-> Append(f, rec),
                       idx |-> updateIndex(l1, idx, l1.index, offset)]

RaftLogAppend(log, f, idx, entry, fail) ==
    LET w == RaftLogWriteEntry(log, f, idx, entry, fail)
    IN  IF w.ret # RR_OK \/ fail = FailSync
        THEN [w EXCEPT !.ret = RR_ERROR]
        ELSE [w EXCEPT !.log.num_entries = w.log.num_entries + 1]

RaftLogGet(log, f, idx, i) ==
    LET offset == seekEntry(log, idx, i)
        r      == readRawLogEntry(f, RecordAt(f, offset))
    IN  IF offset <= 0 THEN NULL
        ELSE IF ~r.ok THEN NULL
        ELSE parseRaftLogEntry(r.re)

RECURSIVE RaftLogDeleteLoop(_, _, _, _)
\* the do-while of RaftLogDelete from record k on: the callbacks made, in
\* order, and the status the loop ends with
RaftLogDeleteLoop(f, k, i, events) ==
    LET r == readRawLogEntry(f, k)
    IN  IF ~r.ok THEN [ret |-> RR_OK, events |-> events]
        ELSE IF r.re.n > 0 /\ strcasecmpEq(r.re.els[1], TagENTRY)
             THEN LET e == parseRaftLogEntry(r.re)
                  IN  IF e = NULL THEN [ret |-> RR_ERROR, events |-> events]
                      ELSE RaftLogDeleteLoop(f, k + 1, i + 1,
                               Append(events, [ev |-> "notify", entry |-> e, idx |-> i]))
             ELSE RaftLogDeleteLoop(f, k + 1, i, events)

\* RaftLogDelete: events lists the callbacks, then the truncation of the file
\* and the update of index/num_entries, in the order the code performs them
RaftLogDelete(log, f, idx, from_idx) ==
    LET offset  == seekEntry(log, idx, from_idx)
        loop    == RaftLogDeleteLoop(f, RecordAt(f, offset), from_idx, <<>>)
        removed == log.index - from_idx + 1
    IN  IF offset = 0
        THEN [ret |-> RR_ERROR, log |-> log, file |-> f, events |-> <<>>]
        ELSE [ret    |-> loop.ret,
              log    |-> [log EXCEPT !.num_entries = log.num_entries - removed,
                                     !.index = from_idx - 1],
              file   |-> ftruncate(f, offset),
              events |-> loop.events \o <<[ev |-> "ftruncate"], [ev |-> "update"]>>]

RaftLogSetVote(log, f, vote) ==
    LET l1 == [log EXCEPT !.vote = vote]
    IN  [ret |-> RR_OK, log |-> l1, file |-> updateLogHeader(l1, f)]

RaftLogSetTerm(log, f, term, vote) ==
    LET l1 == [log EXCEPT !.term = term, !.vote = vote]
    IN  [ret |-> RR_OK, log |-> l1, file |-> updateLogHeader(l1, f)]

\* RaftLogOpen: prepareLog (which empties the index file) and the header
RaftLogOpen(f) ==
    LET r == readRawLogEntry(f, 1)
        h == handleHeader(prepareLog, r.re)
    IN  IF ~r.ok THEN [ok |-> FALSE, log |-> prepareLog, idx |-> <<>>]
        ELSE [ok |-> h.ok, log |-> h.log, idx |-> <<>>]

RECURSIVE RaftLogLoadLoop(_, _, _, _, _, _)
\* the "Read Entries" loop of RaftLogLoadEntries from record k on
RaftLogLoadLoop(log, f, idx, k, ret, loaded) ==
    LET r == readRawLogEntry(f, k)
    IN  IF ~r.ok \/ r.re.n = 0
        THEN [ret |-> ret, log |-> log, idx |-> idx, loaded |-> loaded]
        ELSE IF strcasecmpEq(r.re.els[1], TagENTRY)
             THEN LET e  == parseRaftLogEntry(r.re)
                      l1 == [log EXCEPT !.index = log.index + 1]
                  IN  IF e = NULL
                      THEN [ret |-> -1, log |-> log, idx |-> idx, loaded |-> loaded]
                      ELSE RaftLogLoadLoop(l1, f,
                               updateIndex(l1, idx, l1.index, RecordOffset(f, k)),
                               k + 1, ret + 1,
                               Append(loaded, [entry |-> e, idx |-> l1.index]))
             ELSE [ret |-> -1, log |-> log, idx |-> idx, loaded |-> loaded]

\* RaftLogLoadEntries: the return value, the log and index file afterwards,
\* and the (entry, index) pairs handed to the callback, in order
RaftLogLoadEntries(log, f, idx) ==
    LET l0 == [log EXCEPT !.term = 1, !.index = 0]
        r  == readRawLogEntry(f, 1)
        h  == handleHeader(l0, r.re)
    IN  IF ~r.ok THEN [ret |-> -1, log |-> l0, idx |-> idx, loaded |-> <<>>]
        ELSE IF ~h.ok THEN [ret |-> -1, log |-> h.log, idx |-> idx, loaded |-> <<>>]
        ELSE LET l == RaftLogLoadLoop(h.log, f, idx, 2, 0, <<>>)
             IN  IF l.ret > 0 THEN [l EXCEPT !.log.num_entries = l.ret] ELSE l

RaftLogFirstIdx(log)   == log.snapshot_last_idx
RaftLogCurrentIdx(log) == log.index
RaftLogCount(log)      == log.num_entries

(***************************************************************************)
(* State.                                                                  *)
(***************************************************************************)
VARIABLES
    log,        \* the RaftLog struct (rr->log)
    file,       \* the log file
    idxfile,    \* the index file
    logcache,   \* the EntryCache (rr->logcache)
    aborted,    \* the process died in assert() or PANIC()
    appended,   \* history: index -> entry of the appends that returned
                \* success and were not deleted or reset since
    ioFailed,   \* history: the number of operations that met an I/O error
    refs        \* the reference counts of the entries, followed in the
                \* specification of the cache alone (SpecCache)

vars == <<log, file, idxfile, logcache, aborted, appended, ioFailed, refs>>

Votes   == {-1} \cup (1..MaxNodeId)
Terms   == 0..MaxTerm
DbIds   == {[k \in 1..RAFT_DBID_LEN |-> IF k % 2 = 1 THEN "d" ELSE "b"]}
\* Entries of equal encoded length, so that an offset left in the index file
\* by an earlier layout of the log is again a record boundary
Entries == {[term |-> t, id |-> i, type |-> 0, data |-> <<"x">>] :
               t \in 1..MaxTerm, i \in 1..MaxEntryId}


\* the history restricted to the indices below i
\* no reference taken yet: count[e] is what raft_entry_hold and
\* raft_entry_release calls of this file have added to e's reference count,
\* lent[e] the references EntryCacheGet took for callers that still hold
\* them, over whether a release met a count of zero
NoRefs == [count |-> [e \in Entries |-> 0], lent |-> [e \in Entries |-> 0], over |-> FALSE]

Below(h, i) == [k \in {j \in DOMAIN h : j < i} |-> h[k]]

(***************************************************************************)
(* Facade (RaftLogImpl).  rr is the context: the log struct, the two files *)
(* and the cache.  Each operator yields what the call returns and the      *)
(* context it leaves.                                                      *)
(***************************************************************************)
RR == [log |-> log, file |-> file, idxfile |-> idxfile, logcache |-> logcache]

\* logImplGet: cache first, then the log file through the index file
logImplGet(rr, i) ==
    LET ety == EntryCacheGet(rr.logcache, i)
    IN  IF ety # NULL THEN ety ELSE RaftLogGet(rr.log, rr.file, rr.idxfile, i)

logImplFirstIdx(rr)   == RaftLogFirstIdx(rr.log)
logImplCurrentIdx(rr) == RaftLogCurrentIdx(rr.log)
logImplCount(rr)      == RaftLogCount(rr.log)

\* logImplAppend: asserted is FALSE when the assert of EntryCacheAppend fails
logImplAppend(rr, ety, fail) ==
    LET a  == RaftLogAppend(rr.log, rr.file, rr.idxfile, ety, fail)
        c  == EntryCacheAppend(rr.logcache, ety, a.log.index)
        r1 == [rr EXCEPT !.log = a.log, !.file = a.file, !.idxfile = a.idx]
    IN  IF a.ret # RR_OK THEN [ret |-> -1, asserted |-> TRUE, rr |-> r1]
        ELSE IF ~c.asserted THEN [ret |-> 0, asserted |-> FALSE, rr |-> r1]
        ELSE [ret |-> 0, asserted |-> TRUE, rr |-> [r1 EXCEPT !.logcache = c.cache]]

logImplPoll(rr, first_idx) ==
    [ret |-> 0,
     rr  |-> [rr EXCEPT !.logcache = EntryCacheDeleteHead(rr.logcache, first_idx).cache]]

\* logImplPop: events are the callbacks and file/log updates of RaftLogDelete
logImplPop(rr, from_idx) ==
    LET c == EntryCacheDeleteTail(rr.logcache, from_idx)
        d == RaftLogDelete(rr.log, rr.file, rr.idxfile, from_idx)
    IN  [ret    |-> IF d.ret # RR_OK THEN -1 ELSE 0,
         events |-> d.events,
         rr     |-> [rr EXCEPT !.logcache = c.cache, !.log = d.log, !.file = d.file]]

RECURSIVE logImplGetBatchLoop(_, _, _, _)
\* the while loop of logImplGetBatch: i is the next index, entries the
\* entries stored so far (n = Len(entries))
logImplGetBatchLoop(rr, i, entries_n, entries) ==
    IF Len(entries) < entries_n
    THEN LET c == EntryCacheGet(rr.logcache, i)
             e == IF c # NULL THEN c ELSE RaftLogGet(rr.log, rr.file, rr.idxfile, i)
         IN  IF e = NULL THEN entries
             ELSE logImplGetBatchLoop(rr, i + 1, entries_n, Append(entries, e))
    ELSE entries

\* logImplGetBatch: the returned count n and entries[0..n-1]
logImplGetBatch(rr, idx, entries_n) ==
    [n       |-> Len(logImplGetBatchLoop(rr, idx, entries_n, <<>>)),
     entries |-> logImplGetBatchLoop(rr, idx, entries_n, <<>>)]

logImplReset(rr, index, term) ==
    LET r == RaftLogReset(rr.log, index, term)
    IN  [log |-> r.log, file |-> r.file, idxfile |-> r.idx,
         logcache |-> EntryCacheNew(ENTRY_CACHE_INIT_SIZE)]

\* RaftLogClose, then RaftLogOpen and RaftLogLoadEntries on the same path in
\* a fresh process (logImplInit makes a new cache); loaded lists the
\* (entry, index) pairs handed to the load callback
LogReopen(rr) ==
    LET o == RaftLogOpen(rr.file)
        l == RaftLogLoadEntries(o.log, rr.file, o.idx)
    IN  [ok |-> o.ok, ret |-> l.ret, loaded |-> l.loaded,
         rr |-> [log |-> l.log, file |-> rr.file, idxfile |-> l.idx,
                 logcache |-> EntryCacheNew(ENTRY_CACHE_INIT_SIZE)]]

(***************************************************************************)
(* Actions: the calls the consensus library makes.                         *)
(***************************************************************************)
SetRR(rr) ==
    /\ log' = rr.log
    /\ file' = rr.file
    /\ idxfile' = rr.idxfile
    /\ logcache' = rr.logcache

\* RaftLogCreate followed by logImplInit
Init ==
    \E dbid \in DbIds, term \in Terms, index \in 0..MaxSnapIdx :
        LET c == RaftLogCreate(dbid, term, index)
        IN  /\ log = c.log
            /\ file = c.file
            /\ idxfile = c.idx
            /\ logcache = EntryCacheNew(ENTRY_CACHE_INIT_SIZE)
            /\ aborted = FALSE
            /\ appended = <<>>
            /\ ioFailed = 0
            /\ refs = NoRefs

DoAppend(ety, fail) ==
    /\ ~aborted
    /\ log.index < MaxIndex
    /\ log.num_entries < MaxCount
    /\ Len(file) < MaxRecords
    /\ fail # FailNone => ioFailed < MaxFailures
    /\ LET a == logImplAppend(RR, ety, fail)
       IN  /\ SetRR(a.rr)
           /\ aborted' = ~a.asserted
           /\ ioFailed' = IF a.ret # 0 THEN ioFailed + 1 ELSE ioFailed
           /\ appended' = IF a.ret = 0 /\ a.asserted
                          THEN [k \in DOMAIN appended \cup {a.rr.log.index} |->
                                   IF k = a.rr.log.index THEN ety ELSE appended[k]]
                          ELSE appended
    /\ UNCHANGED refs

DoPoll(first_idx) ==
    /\ ~aborted
    /\ SetRR(logImplPoll(RR, first_idx).rr)
    /\ UNCHANGED <<aborted, appended, ioFailed, refs>>

DoPop(from_idx) ==
    /\ ~aborted
    /\ LET p == logImplPop(RR, from_idx)
       IN  /\ SetRR(p.rr)
           /\ appended' = IF p.events = <<>> THEN appended ELSE Below(appended, from_idx)
    /\ UNCHANGED <<aborted, ioFailed, refs>>

DoReset(index, term) ==
    /\ ~aborted
    /\ SetRR(logImplReset(RR, index, term))
    /\ appended' = <<>>
    /\ UNCHANGED <<aborted, ioFailed, refs>>

DoSetTerm(term, vote) ==
    /\ ~aborted
    /\ LET r == RaftLogSetTerm(log, file, term, vote)
       IN  /\ log' = r.log
           /\ file' = r.file
    /\ UNCHANGED <<idxfile, logcache, aborted, appended, ioFailed, refs>>

DoSetVote(vote) ==
    /\ ~aborted
    /\ LET r == RaftLogSetVote(log, file, vote)
       IN  /\ log' = r.log
           /\ file' = r.file
    /\ UNCHANGED <<idxfile, logcache, aborted, appended, ioFailed, refs>>

DoReopen ==
    /\ ~aborted
    /\ LET o == LogReopen(RR)
       IN  /\ SetRR(o.rr)
           /\ aborted' = ~o.ok
    /\ UNCHANGED <<appended, ioFailed, refs>>

\* an append during which a write, the index update or the sync fails
DoAppendFail ==
    \E ety \in Entries, fail \in FailPoints \ {FailNone} : DoAppend(ety, fail)

\* the calls of a run in which no I/O error occurs
Next ==
    \/ \E ety \in Entries : DoAppend(ety, FailNone)
    \/ \E first_idx \in 0..(MaxIndex + 1) : DoPoll(first_idx)
    \/ \E from_idx \in 1..(MaxIndex + 1) : DoPop(from_idx)
    \/ \E index \in 0..MaxSnapIdx, term \in Terms : DoReset(index, term)
    \/ \E term \in Terms, vote \in Votes : DoSetTerm(term, vote)
    \/ \E vote \in Votes : DoSetVote(vote)
    \/ DoReopen

Spec == Init /\ [][Next]_vars

\* the same calls with I/O errors injected into at most MaxFailures appends
NextIO ==
    \/ Next
    \/ DoAppendFail

SpecIO == Init /\ [][NextIO]_vars

\* A crash during an append (no_fsync = false, so every append that
\* returned is on disk): the record being written is torn, the process
\* dies, and the next process opens the log and loads its entries.
DoCrash(ety) ==
    /\ ~aborted
    /\ Len(file) < MaxRecords
    /\ ioFailed < MaxFailures
    /\ LET t == RaftLogWriteEntry(log, file, idxfile, ety, FailWrite)
           o == LogReopen([RR EXCEPT !.file = t.file])
       IN  /\ SetRR(o.rr)
           /\ aborted' = ~o.ok
    /\ ioFailed' = ioFailed + 1
    /\ UNCHANGED <<appended, refs>>

\* appends, crashes that tear the append in progress, and reloads
NextCrash ==
    \/ \E ety \in Entries : DoAppend(ety, FailNone)
    \/ \E ety \in Entries : DoCrash(ety)
    \/ DoReopen

SpecCrash == Init /\ [][NextCrash]_vars

(***************************************************************************)
(* The entries cache on its own: the calls of the facade on rr->logcache,   *)
(* with appended as the sequence of entries the cache should hold, by      *)
(* index, and refs as the reference counts.                                *)
(***************************************************************************)
MaxInitSize == 2   \* the cache is made with an initial size in 1..MaxInitSize
MaxCacheIdx == 5   \* entries are appended to the cache at indices 1..MaxCacheIdx
MaxLent     == 1   \* a caller holds at most this many references per entry

\* raft_entry_hold(ety): one more reference
raft_entry_hold(r, ety) ==
    IF ety \in Entries THEN [r EXCEPT !.count[ety] = @ + 1] ELSE [r EXCEPT !.over = TRUE]

\* raft_entry_release(ety): one reference less; a release of a null pointer
\* or of an entry without a reference is recorded in over
raft_entry_release(r, ety) ==
    IF ety \in Entries /\ r.count[ety] > 0
    THEN [r EXCEPT !.count[ety] = @ - 1]
    ELSE [r EXCEPT !.over = TRUE]

RECURSIVE HoldAll(_, _)
HoldAll(r, etys) ==
    IF etys = <<>> THEN r ELSE HoldAll(raft_entry_hold(r, Head(etys)), Tail(etys))

RECURSIVE ReleaseAll(_, _)
ReleaseAll(r, etys) ==
    IF etys = <<>> THEN r ELSE ReleaseAll(raft_entry_release(r, Head(etys)), Tail(etys))

\* EntryCacheNew with some initial size
CacheInit ==
    \E size \in 1..MaxInitSize, dbid \in DbIds :
        LET c == RaftLogCreate(dbid, 0, 0)
        IN  /\ log = c.log
            /\ file = c.file
            /\ idxfile = c.idx
            /\ logcache = EntryCacheNew(size)
            /\ aborted = FALSE
            /\ appended = <<>>
            /\ ioFailed = 0
            /\ refs = NoRefs

\* EntryCacheAppend at the index that follows the last one held (any index
\* from 1 on when the cache holds nothing; index 0 is never appended:
\* logImplAppend passes log->index after it was incremented)
DoCacheAppend(ety, idx) ==
    /\ ~aborted
    /\ \/ DOMAIN appended = {}
       \/ /\ DOMAIN appended # {}
          /\ \A k \in DOMAIN appended : k < idx
          /\ idx - 1 \in DOMAIN appended
    /\ LET a == EntryCacheAppend(logcache, ety, idx)
       IN  /\ logcache' = a.cache
           /\ aborted' = ~a.asserted
           /\ refs' = HoldAll(refs, a.held)
    /\ appended' = [k \in DOMAIN appended \cup {idx} |->
                       IF k = idx THEN ety ELSE appended[k]]
    /\ UNCHANGED <<log, file, idxfile, ioFailed>>

DoCacheDeleteHead(first_idx) ==
    /\ ~aborted
    /\ LET d == EntryCacheDeleteHead(logcache, first_idx)
       IN  /\ logcache' = d.cache
           /\ refs' = ReleaseAll(refs, d.released)
    /\ appended' = [k \in {j \in DOMAIN appended : j >= first_idx} |-> appended[k]]
    /\ UNCHANGED <<log, file, idxfile, aborted, ioFailed>>

DoCacheDeleteTail(index) ==
    /\ ~aborted
    /\ LET d == EntryCacheDeleteTail(logcache, index)
       IN  /\ logcache' = d.cache
           /\ refs' = ReleaseAll(refs, d.released)
    /\ appended' = IF index \in DOMAIN appended THEN Below(appended, index) ELSE appended
    /\ UNCHANGED <<log, file, idxfile, aborted, ioFailed>>

\* EntryCacheGet that hits: the caller keeps the reference it was given
DoCacheGet(idx) ==
    /\ ~aborted
    /\ EntryCacheGet(logcache, idx) # NULL
    /\ refs.lent[EntryCacheGet(logcache, idx)] < MaxLent
    /\ refs' = [HoldAll(refs, EntryCacheGetHeld(logcache, idx))
                   EXCEPT !.lent[EntryCacheGet(logcache, idx)] = @ + 1]
    /\ UNCHANGED <<log, file, idxfile, logcache, aborted, appended, ioFailed>>

\* the caller of an earlier EntryCacheGet releases its reference
DoCallerRelease(ety) ==
    /\ ~aborted
    /\ refs.lent[ety] > 0
    /\ refs' = [raft_entry_release(refs, ety) EXCEPT !.lent[ety] = @ - 1]
    /\ UNCHANGED <<log, file, idxfile, logcache, aborted, appended, ioFailed>>

\* EntryCacheFree followed by EntryCacheNew, as logImplReset does
DoCacheFree ==
    /\ ~aborted
    /\ refs' = ReleaseAll(refs, EntryCacheFree(logcache))
    /\ logcache' = EntryCacheNew(ENTRY_CACHE_INIT_SIZE)
    /\ appended' = <<>>
    /\ UNCHANGED <<log, file, idxfile, aborted, ioFailed>>

NextCache ==
    \/ \E ety \in Entries, idx \in 1..MaxCacheIdx : DoCacheAppend(ety, idx)
    \/ \E first_idx \in 0..(MaxCacheIdx + 1) : DoCacheDeleteHead(first_idx)
    \/ \E index \in 0..(MaxCacheIdx + 1) : DoCacheDeleteTail(index)
    \/ \E idx \in 1..MaxCacheIdx : DoCacheGet(idx)
    \/ \E ety \in Entries : DoCallerRelease(ety)
    \/ DoCacheFree

SpecCache == CacheInit /\ [][NextCache]_vars

(***************************************************************************)
(* Bulk load on its own: a log file made of a header and up to             *)
(* MaxLoadRecords records, sound or not, is opened and loaded.             *)
(***************************************************************************)
MaxLoadRecords == 3   \* the loaded file holds at most this many records after the header

\* the entry the unsound records are derived from
SomeEntry == CHOOSE e \in Entries : \A o \in Entries : e.id <= o.id

\* an ENTRY record cut after its second element: readRawLogEntry meets the
\* end of the file (or the next '*') where it expects '$'
TornRecord == [EntryRecord(SomeEntry) EXCEPT !.els = SubSeq(@, 1, 2)]

\* "*0\r\n": a record without elements
EmptyRecord == [n |-> 0, els |-> <<>>]

\* an ENTRY record of four elements
FourElementRecord == [n |-> 4, els |-> SubSeq(EntryRecord(SomeEntry).els, 1, 4)]

\* a well-framed record of five elements whose tag is not ENTRY
OtherTagRecord == [EntryRecord(SomeEntry) EXCEPT !.els[1] = TagRAFTLOG]

\* ENTRY records whose term, id or type (element k) is not a number
NonNumericRecord(k) == [EntryRecord(SomeEntry) EXCEPT !.els[k] = <<"1", "x">>]

\* records that fail in readRawLogEntry or have no element
UnreadableRecords == {TornRecord, RawBytes(1), EmptyRecord}

\* records that readRawLogEntry returns and the load then rejects
RejectedRecords ==
    {FourElementRecord, OtherTagRecord} \cup {NonNumericRecord(k) : k \in 2..4}

LoadRecords == {EntryRecord(e) : e \in Entries} \cup UnreadableRecords \cup RejectedRecords

\* a log file found on disk: the header RaftLogCreate wrote, then records
LoadInit ==
    \E dbid \in DbIds, term \in Terms, index \in 0..MaxSnapIdx, n \in 0..MaxLoadRecords :
        \E recs \in [1..n -> LoadRecords] :
            LET c == RaftLogCreate(dbid, term, index)
            IN  /\ log = RaftLogOpen(c.file \o recs).log
                /\ file = c.file \o recs
                /\ idxfile = <<>>
                /\ logcache = EntryCacheNew(ENTRY_CACHE_INIT_SIZE)
                /\ aborted = FALSE
                /\ appended = <<>>
                /\ ioFailed = 0
                /\ refs = NoRefs

\* RaftLogLoadEntries after RaftLogOpen; appended takes the entries handed
\* to the load callback, by index
DoLoad ==
    /\ ~aborted
    /\ idxfile = <<>>
    /\ ioFailed < MaxFailures
    /\ LET l == RaftLogLoadEntries(log, file, idxfile)
       IN  /\ log' = l.log
           /\ idxfile' = l.idx
           /\ appended' = [i \in {l.loaded[j].idx : j \in 1..Len(l.loaded)} |->
                              (CHOOSE p \in {l.loaded[j] : j \in 1..Len(l.loaded)} :
                                   p.idx = i).entry]
           /\ ioFailed' = IF l.ret < 0 THEN ioFailed + 1 ELSE ioFailed
    /\ UNCHANGED <<file, logcache, aborted, refs>>

NextLoad == DoLoad

SpecLoad == LoadInit /\ [][NextLoad]_vars

(***************************************************************************)
(* Properties.  Those stated over the result of one call apply the call's  *)
(* operator to the current context RR, in every reachable state.           *)
(***************************************************************************)
\* the live range of the log as the accessors report it
LiveRange == (logImplFirstIdx(RR) + 1)..logImplCurrentIdx(RR)

\* every index a caller may ask for
AnyIndex == 0..(MaxIndex + 2)

RECURSIVE AscendingFrom(_, _)
\* the (entry, index) pairs of the history h at the indices >= i, ascending
AscendingFrom(h, i) ==
    IF \A k \in DOMAIN h : k < i THEN <<>>
    ELSE IF i \in DOMAIN h
         THEN <<[entry |-> h[i], idx |-> i]>> \o AscendingFrom(h, i + 1)
         ELSE AscendingFrom(h, i + 1)

\* the index of the last entry written successfully and still live
LastWrittenIdx ==
    IF DOMAIN appended = {} THEN log.snapshot_last_idx
    ELSE CHOOSE i \in DOMAIN appended : \A k \in DOMAIN appended : k <= i

\* C1: in every state reached by successful facade operations, get(i)
\* returns, for every i with first_idx < i <= current_idx, the entry of the
\* most recent successful append that was assigned index i
C1_GetReturnsAppended ==
    ~aborted =>
        \A i \in LiveRange :
            /\ i \in DOMAIN appended
            /\ logImplGet(RR, i) = appended[i]

\* C2: in every state reached from create by facade operations,
\* index >= snapshot_last_idx and num_entries = index - snapshot_last_idx
C2_CountIsIndexRange ==
    ~aborted =>
        /\ log.index >= log.snapshot_last_idx
        /\ log.num_entries = log.index - log.snapshot_last_idx

\* C3: for first_idx < k <= current_idx a successful delete_suffix(k) leaves
\* current_idx = k - 1 and count lowered by old current_idx - k + 1, get(j)
\* returns nothing for every j >= k, and the next successful append gets
\* index k, after which get(k) returns the entry just appended
C3_DeleteSuffixPostState ==
    ~aborted =>
        \A k \in LiveRange :
            LET p == logImplPop(RR, k)
            IN  p.ret = 0 =>
                    /\ logImplCurrentIdx(p.rr) = k - 1
                    /\ logImplCount(p.rr) = logImplCount(RR) - (logImplCurrentIdx(RR) - k + 1)
                    /\ \A j \in AnyIndex : j >= k => logImplGet(p.rr, j) = NULL
                    /\ \A e \in Entries :
                           LET a == logImplAppend(p.rr, e, FailNone)
                           IN  (a.ret = 0 /\ a.asserted) =>
                                   /\ logImplCurrentIdx(a.rr) = k
                                   /\ logImplGet(a.rr, k) = e

\* C4: poll_prefix(k) sets first_idx = k, and afterwards get(j) returns
\* nothing for every j < k, from the cache or from the log file
C4_PollPrefixPostState ==
    ~aborted =>
        \A k \in LiveRange :
            LET p == logImplPoll(RR, k)
            IN  /\ logImplFirstIdx(p.rr) = k
                /\ \A j \in AnyIndex : j < k => logImplGet(p.rr, j) = NULL

\* C5: after successful create/append/delete_suffix/reset/set_term/set_vote
\* calls, closing and re-opening the log recovers snapshot_last_idx,
\* snapshot_last_term, term, vote and dbid, sets current_idx to the index of
\* the last entry written and count to the number of live entries, and
\* hands each live entry to the load callback once, in index order
C5_ReopenRecovers ==
    ~aborted =>
        LET o == LogReopen(RR)
        IN  /\ o.ok
            /\ o.ret >= 0
            /\ o.rr.log.snapshot_last_idx = log.snapshot_last_idx
            /\ o.rr.log.snapshot_last_term = log.snapshot_last_term
            /\ o.rr.log.term = log.term
            /\ o.rr.log.vote = log.vote
            /\ o.rr.log.dbid = log.dbid
            /\ logImplCurrentIdx(o.rr) = LastWrittenIdx
            /\ logImplCount(o.rr) = Cardinality(DOMAIN appended)
            /\ o.loaded = AscendingFrom(appended, 0)

\* C6: an append in which a write step fails returns an error and leaves
\* current_idx, count and the cache as they were before the call
C6_FailedAppendKeepsState ==
    [][DoAppendFail =>
          /\ ioFailed' = ioFailed + 1
          /\ logImplCurrentIdx(RR)' = logImplCurrentIdx(RR)
          /\ logImplCount(RR)' = logImplCount(RR)
          /\ logcache' = logcache]_vars

\* C7: in every state reached by facade operations get(idx) returns nothing
\* for every idx <= snapshot_last_idx and every idx > current_idx
C7_OutOfRangeGetsNothing ==
    ~aborted =>
        \A i \in AnyIndex :
            (i <= log.snapshot_last_idx \/ i > logImplCurrentIdx(RR))
                => logImplGet(RR, i) = NULL

\* C8: a successful delete_suffix(from_idx) calls notify exactly once for
\* each discarded entry, in ascending index order and with the content
\* appended at that index, before the file is truncated and before
\* current_idx and count are updated
C8_NotifyPerDiscardedEntry ==
    ~aborted =>
        \A from_idx \in 1..(MaxIndex + 1) :
            LET p == logImplPop(RR, from_idx)
            IN  p.ret = 0 =>
                    p.events =
                        [k \in 1..Len(AscendingFrom(appended, from_idx)) |->
                            [ev    |-> "notify",
                             entry |-> AscendingFrom(appended, from_idx)[k].entry,
                             idx   |-> AscendingFrom(appended, from_idx)[k].idx]]
                        \o <<[ev |-> "ftruncate"], [ev |-> "update"]>>

\* C9: in every state reached by facade operations, a non-empty cache ends
\* at the log index: start_idx + len - 1 = index
C9_CacheIsLogTail ==
    ~aborted =>
        (logcache.len > 0 => logcache.start_idx + logcache.len - 1 = log.index)

\* C10: in every state reached from create by set_term, set_vote, reset and
\* append, term >= snapshot_last_term
C10_TermAtLeastSnapshotTerm ==
    ~aborted => log.term >= log.snapshot_last_term

\* term and vote values of every decimal width the header fields can take
\* within the integers of the model
WideTerms == {0, 10, 2147483647}
WideVotes == {-2147483647, -1, 0, 10, 2147483647}

\* the header has the same length whatever term and vote are written
HeaderLengthIsFixed ==
    \A t \in WideTerms, v \in WideVotes :
        RecordLen(writeLogHeader([log EXCEPT !.term = t, !.vote = v]))
            = RecordLen(writeLogHeader(log))

\* the context a header rewrite leaves: the log struct and the log file are
\* what RaftLogSetTerm/RaftLogSetVote return, nothing else is touched
AfterHeaderRewrite(r) == [RR EXCEPT !.log = r.log, !.file = r.file]

\* what a header rewrite with result r must leave alone
HeaderRewriteFrame(r) ==
    /\ r.ret = RR_OK
    /\ FileLen(r.file) = FileLen(file)
    /\ Tail(r.file) = Tail(file)
    /\ logImplCurrentIdx(AfterHeaderRewrite(r)) = logImplCurrentIdx(RR)
    /\ logImplCount(AfterHeaderRewrite(r)) = logImplCount(RR)
    /\ logImplFirstIdx(AfterHeaderRewrite(r)) = logImplFirstIdx(RR)
    /\ \A i \in LiveRange : logImplGet(AfterHeaderRewrite(r), i) = logImplGet(RR, i)

\* C11: set_term(term, vote) and set_vote(vote) rewrite only the header: the
\* length of the log file, current_idx, count, first_idx and what get(i)
\* returns for every live i stay the same, and only term and vote take the
\* new values, whatever their decimal width
C11_HeaderRewriteOnly ==
    ~aborted =>
        /\ HeaderLengthIsFixed
        /\ \A t \in Terms, v \in Votes :
               /\ RaftLogSetTerm(log, file, t, v).log = [log EXCEPT !.term = t, !.vote = v]
               /\ HeaderRewriteFrame(RaftLogSetTerm(log, file, t, v))
        /\ \A v \in Votes :
               /\ RaftLogSetVote(log, file, v).log = [log EXCEPT !.vote = v]
               /\ HeaderRewriteFrame(RaftLogSetVote(log, file, v))

\* a vote was stored by set_term/set_vote in a log that holds live entries,
\* each readable with the content appended, and a further set_term would
\* change the header bytes
C11_Witness ==
    /\ ~aborted
    /\ log.vote = 1
    /\ log.term = 0
    /\ LiveRange # {}
    /\ \A i \in LiveRange : i \in DOMAIN appended /\ logImplGet(RR, i) = appended[i]
    /\ file[1] = writeLogHeader(log)
    /\ RaftLogSetTerm(log, file, 1, -1).file # file

\* C12: a successful reset(idx, term) leaves the log empty at the new
\* boundary: snapshot_last_idx = current_idx = idx, snapshot_last_term =
\* term, count = 0, an empty cache, get(j) returning nothing for every j and
\* the next append assigned idx + 1; vote becomes -1 exactly when the term
\* decreased and is otherwise kept
C12_ResetPostState ==
    ~aborted =>
        \A idx \in 0..MaxSnapIdx, term \in Terms :
            LET r == logImplReset(RR, idx, term)
            IN  /\ logImplFirstIdx(r) = idx
                /\ logImplCurrentIdx(r) = idx
                /\ r.log.snapshot_last_term = term
                /\ logImplCount(r) = 0
                /\ r.logcache.len = 0
                /\ \A j \in AnyIndex : logImplGet(r, j) = NULL
                /\ \A e \in Entries :
                       LET a == logImplAppend(r, e, FailNone)
                       IN  a.ret = 0 /\ a.asserted /\ logImplCurrentIdx(a.rr) = idx + 1
                /\ r.log.vote = (IF log.term > term THEN -1 ELSE log.vote)

\* C13: with no_fsync = false, over appends, crashes that tear the append in
\* progress, reloads and further appends, every reload recovers exactly the
\* entries whose append returned success, each with its index and content,
\* and never a torn entry
C13_ReloadRecoversAcknowledged ==
    ~aborted =>
        LET o == LogReopen(RR)
        IN  /\ o.ok
            /\ o.loaded = AscendingFrom(appended, 0)

\* the metadata a header carries
Metadata(l) ==
    [dbid |-> l.dbid, snapshot_last_term |-> l.snapshot_last_term,
     snapshot_last_idx |-> l.snapshot_last_idx, term |-> l.term, vote |-> l.vote]

\* re-opening the log file f parses a header holding the metadata of one of
\* the log structs in olds
OpensTo(f, olds) ==
    /\ RaftLogOpen(f).ok
    /\ \E l \in olds : Metadata(RaftLogOpen(f).log) = Metadata(l)

\* C14: at every point of create, reset, set_term and set_vote at which a
\* crash may occur the log file begins with a complete valid header, so a
\* re-open at that point succeeds and yields the old or the new metadata
C14_HeaderValidAtEveryPoint ==
    ~aborted =>
        /\ \A index \in 0..MaxSnapIdx, term \in Terms :
               \A k \in 1..Len(RaftLogResetPoints(log, file, index, term)) :
                   OpensTo(RaftLogResetPoints(log, file, index, term)[k],
                           {log, RaftLogReset(log, index, term).log})
        /\ \A term \in Terms, vote \in Votes :
               \A k \in 1..Len(updateLogHeaderPoints(log, file)) :
                   OpensTo(updateLogHeaderPoints(
                               RaftLogSetTerm(log, file, term, vote).log, file)[k],
                           {log, RaftLogSetTerm(log, file, term, vote).log})
        /\ \A vote \in Votes :
               \A k \in 1..Len(updateLogHeaderPoints(log, file)) :
                   OpensTo(updateLogHeaderPoints(
                               RaftLogSetVote(log, file, vote).log, file)[k],
                           {log, RaftLogSetVote(log, file, vote).log})
        /\ \A dbid \in DbIds, term \in Terms, index \in 0..MaxSnapIdx :
               \A k \in 1..Len(RaftLogCreatePoints(dbid, term, index)) :
                   RaftLogOpen(RaftLogCreatePoints(dbid, term, index)[k]).ok

\* C15: the cache is advisory: in every state reached by facade operations
\* and for every index, the cache-first get returns what a lookup that
\* bypasses the cache reads from the log file through the index file
C15_CacheIsAdvisory ==
    ~aborted =>
        \A i \in AnyIndex :
            logImplGet(RR, i) = RaftLogGet(log, file, idxfile, i)

RECURSIVE RunLength(_, _)
\* the number of consecutive indices i, i + 1, ... for which get returns an
\* entry, counted up to cap
RunLength(i, cap) ==
    IF cap = 0 \/ logImplGet(RR, i) = NULL THEN 0 ELSE 1 + RunLength(i + 1, cap - 1)

\* min(n, current_idx - idx + 1) for a live idx, 0 for one out of range
LiveRunLength(idx, n) ==
    IF idx \in LiveRange
    THEN IF n < logImplCurrentIdx(RR) - idx + 1 THEN n ELSE logImplCurrentIdx(RR) - idx + 1
    ELSE 0

\* C16: get_batch(idx, n, out) returns the length m of the longest run of
\* consecutive indices from idx on for which get returns an entry, capped
\* at n, which is min(n, current_idx - idx + 1) for a live idx and 0 for one
\* out of range, and out[j] has the content of get(idx + j) for every j < m
C16_GetBatchIsRunOfGets ==
    ~aborted =>
        \A idx \in AnyIndex, n \in 0..MaxBatch :
            LET b == logImplGetBatch(RR, idx, n)
            IN  /\ b.n = RunLength(idx, n)
                /\ b.n = LiveRunLength(idx, n)
                /\ \A j \in 0..(b.n - 1) : b.entries[j + 1] = logImplGet(RR, idx + j)


\* the indices delete_suffix must refuse: at or below snapshot_last_idx, or
\* above current_idx
OutOfRange == { i \in AnyIndex : i <= log.snapshot_last_idx \/ i > logImplCurrentIdx(RR) }

\* C17: delete_suffix(from_idx) with from_idx out of range returns an error,
\* makes no notify call and leaves current_idx, count, the log file, the
\* index file and the cache unchanged
C17_OutOfRangeDeleteIsNoOp ==
    ~aborted =>
        \A from_idx \in OutOfRange :
            /\ logImplPop(RR, from_idx).ret # 0
            /\ logImplPop(RR, from_idx).events = <<>>
            /\ logImplPop(RR, from_idx).rr = RR


\* the indices the cache is asked about
CacheProbe == 0..(MaxCacheIdx + 1)

\* the lowest index of h, 0 when h holds nothing
FirstOf(h) ==
    IF DOMAIN h = {} THEN 0 ELSE CHOOSE m \in DOMAIN h : \A k \in DOMAIN h : m <= k

\* the cache holds exactly the entries of h, a run of consecutive indices:
\* it is anchored at h's first index (0 when empty), as long as h, and Get
\* returns h[idx] within h and nothing elsewhere
Refines(cache, h) ==
    /\ cache.start_idx = FirstOf(h)
    /\ cache.len = Cardinality(DOMAIN h)
    /\ \A idx \in CacheProbe :
           EntryCacheGet(cache, idx) = IF idx \in DOMAIN h THEN h[idx] ELSE NULL

\* h without the indices below i
AtOrAbove(h, i) == [k \in {j \in DOMAIN h : j >= i} |-> h[k]]

\* C18: the ring buffer refines the sequence of entries anchored at
\* start_idx, for any initial size and any run of Append at consecutive
\* indices, DeleteHead and DeleteTail: Get(idx) returns the entry appended at
\* idx within [start_idx, start_idx + len) and nothing elsewhere;
\* DeleteHead(f) evicts exactly the indices below f and DeleteTail(t) exactly
\* those from t on, each returning the number evicted, or -1 with the cache
\* unchanged when f < start_idx or t is outside [start_idx, start_idx + len);
\* start_idx is 0 whenever the cache is empty
C18_CacheRefinesSequence ==
    /\ ~aborted
    /\ Refines(logcache, appended)
    /\ \A ety \in Entries :
           LET idx == IF DOMAIN appended = {} THEN 1
                      ELSE logcache.start_idx + logcache.len
               a   == EntryCacheAppend(logcache, ety, idx)
           IN  /\ a.asserted
               /\ Refines(a.cache, [k \in DOMAIN appended \cup {idx} |->
                                       IF k = idx THEN ety ELSE appended[k]])
    /\ \A f \in CacheProbe :
           LET d == EntryCacheDeleteHead(logcache, f)
           IN  IF f < logcache.start_idx
               THEN d.deleted = -1 /\ d.cache = logcache
               ELSE /\ d.deleted = Cardinality({k \in DOMAIN appended : k < f})
                    /\ Refines(d.cache, AtOrAbove(appended, f))
    /\ \A t \in CacheProbe :
           LET d == EntryCacheDeleteTail(logcache, t)
           IN  IF t < logcache.start_idx \/ t >= logcache.start_idx + logcache.len
               THEN d.deleted = -1 /\ d.cache = logcache
               ELSE /\ d.deleted = Cardinality({k \in DOMAIN appended : k >= t})
                    /\ Refines(d.cache, Below(appended, t))

\* a full cache whose contents wrap around the end of the ring (start > 0)
\* and hold different entries: the next Append doubles it with start > 0
C18_Witness ==
    /\ ~aborted
    /\ logcache.len = logcache.size
    /\ logcache.size >= 2
    /\ logcache.start > 0
    /\ \E i, j \in DOMAIN appended : appended[i] # appended[j]
    /\ \A ety \in Entries :
           EntryCacheAppend(logcache, ety, logcache.start_idx + logcache.len).cache.size
               = 2 * logcache.size


\* the index-file slot of live index i
SlotOf(i) == (i - log.snapshot_last_idx) + 1

\* the record of the log file that starts at the offset held in i's slot
\* (0: the slot is missing or its offset is not the start of a record)
SlotRecord(i) ==
    IF SlotOf(i) <= Len(idxfile) THEN RecordAt(file, idxfile[SlotOf(i)]) ELSE 0

\* C19: for every live index i in (snapshot_last_idx, index] the index-file
\* slot i - snapshot_last_idx holds the byte offset at which entry i's record
\* starts in the log file, after every append, delete_suffix, reset and load
C19_IndexSlotsPointAtRecords ==
    ~aborted =>
        \A i \in LiveRange :
            /\ SlotRecord(i) # 0
            /\ parseRaftLogEntry(file[SlotRecord(i)]) # NULL
            /\ i \in DOMAIN appended =>
                   parseRaftLogEntry(file[SlotRecord(i)]) = appended[i]


\* the number of cache slots that contain ety
SlotsHolding(cache, ety) ==
    Cardinality({i \in 0..(cache.len - 1) :
                    cache.ptrs[(cache.start + i) % cache.size] = ety})

\* C20: reference balance of the cache: for every entry the holds minus the
\* releases the cache has made (the count without the references lent to
\* callers of Get) equal the number of cache slots that contain it, no
\* release meets an entry without a reference, after Free (or reset) every
\* reference of the cache is released, and a Get that hits takes exactly one
\* reference, on the entry it returns, for the caller
C20_CacheReferenceBalance ==
    /\ ~refs.over
    /\ \A ety \in Entries :
           refs.count[ety] - refs.lent[ety] = SlotsHolding(logcache, ety)
    /\ LET r == ReleaseAll(refs, EntryCacheFree(logcache))
       IN  /\ ~r.over
           /\ \A ety \in Entries : r.count[ety] = r.lent[ety]
    /\ \A idx \in CacheProbe :
           EntryCacheGetHeld(logcache, idx) =
               IF EntryCacheGet(logcache, idx) = NULL THEN <<>>
               ELSE <<EntryCacheGet(logcache, idx)>>

\* one entry sits in two slots of a wrapped ring and is also held by a
\* caller of Get, another was held by the cache and is fully released
C20_Witness ==
    /\ ~aborted
    /\ logcache.start > 0
    /\ logcache.start + logcache.len > logcache.size
    /\ \E e1, e2 \in Entries :
           /\ e1 # e2
           /\ SlotsHolding(logcache, e1) = 2
           /\ refs.lent[e1] = 1
           /\ refs.count[e1] = 3
           /\ SlotsHolding(logcache, e2) = 0
           /\ refs.count[e2] = 0


RECURSIVE SoundPrefix(_, _)
\* the number of records from the k-th on that are well-formed ENTRY
\* records, up to the first record that is not (or the end of the file)
SoundPrefix(f, k) ==
    IF k <= Len(f) /\ f[k] \in {EntryRecord(e) : e \in Entries}
    THEN 1 + SoundPrefix(f, k + 1)
    ELSE 0

\* C21: during bulk load the first unparseable record of any kind (short
\* read, bad framing, an element count other than 5, a tag other than ENTRY,
\* a non-numeric term, id or type) ends the load as a clean end of log: the
\* load reports no error, the entries parsed before the record are retained,
\* current_idx is snapshot_last_idx plus their number and count is their
\* number
C21_LoadStopsCleanlyAtBadRecord ==
    ~aborted =>
        LET l == RaftLogLoadEntries(RaftLogOpen(file).log, file, <<>>)
            n == SoundPrefix(file, 2)
        IN  /\ l.ret >= 0
            /\ Len(l.loaded) = n
            /\ \A j \in 1..Len(l.loaded) :
                   /\ EntryRecord(l.loaded[j].entry) = file[j + 1]
                   /\ l.loaded[j].idx = l.log.snapshot_last_idx + j
            /\ RaftLogCurrentIdx(l.log) = l.log.snapshot_last_idx + n
            /\ RaftLogCount(l.log) = n


\* C22: the assertion of the cache append, start_idx + len == idx, never
\* fails in a state reached through the facade (append, poll, pop, reset):
\* the index given to a successfully appended entry is the cache's next
\* index, or the cache is empty
C22_CacheAppendAssertHolds ==
    ~aborted =>
        \A ety \in Entries :
            LET a == logImplAppend(RR, ety, FailNone)
            IN  a.ret = 0 =>
                    /\ a.asserted
                    /\ \/ logcache.len = 0
                       \/ logcache.start_idx + logcache.len = a.rr.log.index

====
